---------------------------- MODULE Spec2Model ----------------------------
(***************************************************************************)
(* A model of the chat relay of server.py and of the rate client of        *)
(* exchange.py.                                                            *)
(*                                                                         *)
(* Spec      the server: one ws_handler task per connection, interleaved   *)
(*           at the await points of server.py (cooperative scheduling:     *)
(*           everything between two awaits is one step).                   *)
(* SpecFetch exchange_rates taken alone: the requests of one call, their   *)
(*           completion in any order under asyncio.gather, the parse loop. *)
(* SpecApi   register / unregister called directly, one call at a time.    *)
(* SpecCmd   message_handle on one frame, no other task running: the       *)
(*           audit line, arg_parsing, exchange_rates, the reply.           *)
(* SpecPars  pars_response applied to one 200 body.                        *)
(***************************************************************************)
EXTENDS Integers, Sequences, FiniteSets, TLC

\* Bounds of the model.
NConns == 3
MaxFrames == 3
MaxCloses == 1
MaxDays == 2
MaxCalls == 5
MaxRates == 2

\* The connections (WebSocketServerProtocol objects) the server may accept.
\* A connection's number is also its slot in the hash table of
\* Server.clients: the set iterator walks the slots upwards.  Connections
\* are interchangeable in every other respect, so this fixes no behaviour
\* (a table that is resized while it is iterated is not modelled).
Conns == 1..NConns

VARIABLES
  clients,    \* Server.clients
  pc,         \* where each ws_handler task is suspended
  closed,     \* each connection's transport: "open", "ok" (closed 1000), "err"
  frame,      \* how many frames the receive loop of a connection has yielded
  msg,        \* the frame message_handle is working on ("message")
  itUsed,     \* the set iterator of send_to_clients: si_used
  itPos,      \* the set iterator of send_to_clients: si_pos
  cur,        \* the client whose send() a broadcast is suspended in
  got,        \* got[r][s]: the frames of sender s delivered to r, in order
  exc,        \* how a ws_handler ended
  excAt,      \* the await the ending exception came out of
  snap,       \* history: clients when the task's broadcast began
  stayed,     \* history: members of snap never unregistered since
  newcomers,  \* history: connections registered during the task's broadcast
  fileLogger, \* Server.__file_logger: "None", "nofile" (file is None), "file"
  logFile,    \* whether log.log exists on disk
  audit,      \* audit[c]: where the audit lines of c's latest frame went
  fpc,        \* exchange_rates: "idle", "call", "gather", "done"
  fdays,      \* exchange_rates: days, after the MAX_DAYS cut
  requests,   \* exchange_rates: the offsets requested, in list order
  arrived,    \* the order in which the responses completed
  cources,    \* exchange_rates: gather's list
  fresult,    \* exchange_rates: the value returned
  fexc,       \* exchange_rates: the exception raised
  apiLast,    \* the last direct call of register / unregister and its outcome
  apiCalls,   \* how many direct calls were made
  cpc,        \* message_handle: "idle", "start", "logged", "done"
  ctext,      \* message_handle: message
  cprovider,  \* the offsets the provider answers with an error status
  clogger,    \* Server.__file_logger when the frame arrives
  caudit,     \* the audit records message_handle wrote
  cparse,     \* what arg_parsing returned
  creqs,      \* the offsets exchange_rates requested, in list order
  cresult,    \* what exchange_rates returned
  creply,     \* what message_handle returned
  cexc,       \* the exception message_handle raised
  ppc,        \* pars_response: "idle", "call", "done"
  presponse,  \* pars_response: response
  pcurrency,  \* pars_response: currency
  pout        \* pars_response: the value returned

serverVars == <<clients, pc, closed, frame, msg, itUsed, itPos, cur, got, exc,
                excAt, snap, stayed, newcomers, fileLogger, logFile, audit>>
fetchVars == <<fpc, fdays, requests, arrived, cources, fresult, fexc>>
apiVars == <<apiLast, apiCalls>>
cmdVars == <<cpc, ctext, cprovider, clogger, caudit, cparse, creqs, cresult,
             creply, cexc>>
parsVars == <<ppc, presponse, pcurrency, pout>>
vars == <<serverVars, fetchVars, apiVars, cmdVars, parsVars>>

Min(S) == CHOOSE x \in S : \A y \in S : x <= y

(***************************************************************************)
(* exchange.py                                                             *)
(***************************************************************************)

\* MAX_DAYS of exchange.py.
MAX_DAYS == 10

\* What one get_request can come back with for the request of offset d:
\* the JSON body of a 200 (with or without "exchangeRate", under the date
\* the provider answered for), the "Error status" string of another status,
\* or str(err) of a ClientConnectorError (connection_errors).
JsonBodies(d) ==
  {[kind |-> "json", req |-> d, date |-> dt, rates |-> r] :
      dt \in {d, d + 1}, r \in BOOLEAN}
get_request(d) ==
  JsonBodies(d)
    \cup {[kind |-> "status", req |-> d, date |-> d, rates |-> FALSE],
          [kind |-> "connerr", req |-> d, date |-> d, rates |-> FALSE]}

IsStr(course) == course.kind # "json"

\* pars_response: response.get(...) of a str raises AttributeError; a body
\* without "exchangeRate" gives {}, any other body the record of its date.
pars_response(course) ==
  IF IsStr(course) THEN [raise |-> TRUE, req |-> course.req, date |-> 0, empty |-> TRUE]
  ELSE IF ~course.rates THEN [raise |-> FALSE, req |-> course.req, date |-> 0, empty |-> TRUE]
  ELSE [raise |-> FALSE, req |-> course.req, date |-> course.date, empty |-> FALSE]

\* The loop of lines 148-149 over gather's list: the list of parsed days, or
\* the AttributeError of the first str in it.
RECURSIVE ParseAll(_)
ParseAll(cs) ==
  IF cs = <<>> THEN [raise |-> FALSE, result |-> <<>>]
  ELSE LET p == pars_response(Head(cs))
           rest == ParseAll(Tail(cs))
       IN IF p.raise THEN [raise |-> TRUE, result |-> <<>>]
          ELSE IF rest.raise THEN rest
          ELSE [raise |-> FALSE, result |-> <<p>> \o rest.result]

\* range(days) after the cut of lines 135-136.
ClampDays(days) == IF days > MAX_DAYS THEN MAX_DAYS ELSE days

\* A request of gather's list that has not completed yet.
Pending(d) == [kind |-> "pending", req |-> d, date |-> d, rates |-> FALSE]

\* A gather that fills its list in the order of completion.
GatherPutArrival(cs, i, resp) ==
  [cs EXCEPT ![Cardinality({j \in 1..Len(cs) : cs[j].kind # "pending"}) + 1] = resp]

\* asyncio.gather puts the result of its i-th awaitable at place i of its
\* list, whenever it completes.
GatherPut(cs, i, resp) == [cs EXCEPT ![i] = resp]

\* The lists gather can return for days requests.
GatherLists(days) ==
  {cs \in [1..days -> UNION {get_request(d) : d \in 0..(days - 1)}] :
      \A i \in 1..days : cs[i].req = i - 1}

(***************************************************************************)
(* server.py                                                               *)
(***************************************************************************)

\* The frames a peer may send: chat text, an exchange command arg_parsing
\* rejects, an exchange command for 0..MaxDays days.
ChatMsg == [cmd |-> "chat", valid |-> TRUE, days |-> 0]
NoMsg == [cmd |-> "none", valid |-> TRUE, days |-> 0]
Messages ==
  {ChatMsg, [cmd |-> "exchange", valid |-> FALSE, days |-> 0]}
    \cup {[cmd |-> "exchange", valid |-> TRUE, days |-> d] : d \in 0..MaxDays}

\* next() of the iterator of a set (setiter_iternext): RuntimeError when the
\* set's size differs from the size at the iterator's creation, otherwise
\* the first member at or after the position.
SetIterNext(used, pos) ==
  IF used # Cardinality(clients) THEN [st |-> "raise", item |-> 0, pos |-> pos]
  ELSE LET rest == {d \in clients : d >= pos}
       IN IF rest = {} THEN [st |-> "stop", item |-> 0, pos |-> pos]
          ELSE [st |-> "item", item |-> Min(rest), pos |-> Min(rest) + 1]

\* A register that names the connection and does not add it.
registerNameOnly(ws) == clients' = clients

\* Server.register: set.add.
register(ws) == clients' = clients \cup {ws}

\* set.remove raises KeyError for a value that is not a member.
UnregisterRaises(ws) == ws \notin clients

\* The histories of the broadcasts in flight, after ws left the set.
StayedWithout(ws) ==
  [s \in Conns |-> IF pc[s] = "send" /\ s # ws THEN stayed[s] \ {ws} ELSE stayed[s]]

\* The histories of the broadcasts in flight, after ws joined the set.
NewcomersWith(ws) ==
  [s \in Conns |-> IF pc[s] = "send" THEN newcomers[s] \cup {ws} ELSE newcomers[s]]

\* The exceptions of websockets a send() or a receive raises on a closed
\* connection; ws_handler catches the first.
ConnectionClosed == {"ConnectionClosedOK", "ConnectionClosedError"}

\* ws_handler, lines 40-43: an exception e leaves distrubute at await `at`
\* ("returned": the loop ended), the finally clause unregisters ws, and
\* the handler is over.
HandlerEnds(ws, e, at) ==
  /\ pc' = [pc EXCEPT ![ws] = "done"]
  /\ excAt' = [excAt EXCEPT ![ws] = at]
  /\ IF UnregisterRaises(ws)
       THEN /\ exc' = [exc EXCEPT ![ws] = "KeyError"]
            /\ UNCHANGED <<clients, stayed>>
       ELSE /\ exc' = [exc EXCEPT ![ws] = e]
            /\ clients' = clients \ {ws}
            /\ stayed' = StayedWithout(ws)
  /\ itUsed' = [itUsed EXCEPT ![ws] = 0]
  /\ itPos' = [itPos EXCEPT ![ws] = 0]
  /\ msg' = [msg EXCEPT ![ws] = NoMsg]
  /\ audit' = [audit EXCEPT ![ws] = <<>>]
  /\ cur' = [cur EXCEPT ![ws] = IF e \in ConnectionClosed /\ at = "send" THEN @ ELSE 0]
  /\ UNCHANGED <<snap, newcomers>>

\* message_handle suspends at the await p; the histories of the task's
\* previous broadcast are dropped.
Goto(ws, p) ==
  /\ pc' = [pc EXCEPT ![ws] = p]
  /\ snap' = [snap EXCEPT ![ws] = {}]
  /\ stayed' = [stayed EXCEPT ![ws] = {}]
  /\ newcomers' = [newcomers EXCEPT ![ws] = {}]
  /\ UNCHANGED <<clients, exc, excAt, itUsed, itPos, cur>>

\* send_to_clients up to its first await: the iterator is created over the
\* live set and the first client's send() is awaited.
send_to_clients(ws) ==
  LET n == SetIterNext(Cardinality(clients), 1)
  IN /\ snap' = [snap EXCEPT ![ws] = clients]
     /\ stayed' = [stayed EXCEPT ![ws] = clients]
     /\ newcomers' = [newcomers EXCEPT ![ws] = {}]
     /\ msg' = [msg EXCEPT ![ws] = NoMsg]
     /\ UNCHANGED <<clients, exc, excAt>>
     /\ IF clients = {} \/ n.st # "item"
          THEN /\ pc' = [pc EXCEPT ![ws] = "recv"]
               /\ UNCHANGED <<itUsed, itPos, cur>>
          ELSE /\ pc' = [pc EXCEPT ![ws] = "send"]
               /\ itUsed' = [itUsed EXCEPT ![ws] = Cardinality(clients)]
               /\ itPos' = [itPos EXCEPT ![ws] = n.pos]
               /\ cur' = [cur EXCEPT ![ws] = n.item]

\* message_handle, lines 55-62, once the audit line is out: a command
\* arg_parsing rejects is answered at once, another awaits exchange_rates.
AfterLog(ws, m) ==
  IF m.valid
    THEN Goto(ws, "fetch") /\ msg' = [msg EXCEPT ![ws] = m]
    ELSE send_to_clients(ws)

\* AsyncLogger.log with file None: the line is printed, with no await.
LogToStdout(ws) ==
  audit' = [audit EXCEPT ![ws] = <<"stdout">>]

\* The frames received so far, over all connections, and the connections
\* closed by their peers: what MaxFrames and MaxCloses bound.
RECURSIVE SumTo(_)
SumTo(n) == IF n = 0 THEN 0 ELSE frame[n] + SumTo(n - 1)
FramesSoFar == SumTo(NConns)
ClosesSoFar == Cardinality({c \in Conns : closed[c] # "open"})

\* A loop that reads the next frame while the broadcast of the previous
\* one is still in a send.
CanReceiveEarly(ws) == pc[ws] \in {"recv", "send"}

\* The loop of distrubute reads the next frame only once the body of the
\* previous turn (message_handle, then send_to_clients) has returned.
CanReceive(ws) == pc[ws] = "recv"

\* serve() accepts a connection: ws_handler registers it and awaits the
\* first frame.
Connect(ws) ==
  /\ pc[ws] = "idle"
  /\ UNCHANGED <<fetchVars, apiVars, cmdVars, parsVars>>
  /\ register(ws)
  /\ pc' = [pc EXCEPT ![ws] = "recv"]
  /\ newcomers' = NewcomersWith(ws)
  /\ UNCHANGED <<closed, frame, msg, itUsed, itPos, cur, got, exc, excAt, snap,
                 stayed, fileLogger, logFile, audit>>

\* The peer closes its connection, cleanly or not.
PeerClose(ws) ==
  /\ pc[ws] \notin {"idle", "done"}
  /\ UNCHANGED <<fetchVars, apiVars, cmdVars, parsVars>>
  /\ closed[ws] = "open"
  /\ ClosesSoFar < MaxCloses
  /\ \E how \in {"ok", "err"} : closed' = [closed EXCEPT ![ws] = how]
  /\ UNCHANGED <<clients, pc, frame, msg, itUsed, itPos, cur, got, exc, excAt,
                 snap, stayed, newcomers, fileLogger, logFile, audit>>

\* distrubute resumes with a frame m and runs message_handle to its first
\* await: none for chat text (the broadcast starts), Server.logger's
\* set_file when the logger is first made, the append of AsyncLogger.log
\* when the logger has a file; the print of a logger without file does not
\* suspend.
RecvFrame(ws) ==
  /\ CanReceive(ws)
  /\ UNCHANGED <<fetchVars, apiVars, cmdVars, parsVars>>
  /\ closed[ws] = "open"
  /\ FramesSoFar < MaxFrames
  /\ frame' = [frame EXCEPT ![ws] = @ + 1]
  /\ UNCHANGED <<closed, got, logFile>>
  /\ \E m \in Messages :
       IF m.cmd = "chat"
         THEN send_to_clients(ws) /\ UNCHANGED <<fileLogger, audit>>
       ELSE IF fileLogger = "None"
         THEN /\ fileLogger' = "nofile"
              /\ Goto(ws, "set_file")
              /\ msg' = [msg EXCEPT ![ws] = m]
              /\ UNCHANGED audit
       ELSE IF fileLogger = "nofile"
         THEN LogToStdout(ws) /\ AfterLog(ws, m) /\ UNCHANGED fileLogger
       ELSE /\ Goto(ws, "log_write")
            /\ msg' = [msg EXCEPT ![ws] = m]
            /\ UNCHANGED <<fileLogger, audit>>

\* The receive loop finds the connection closed: after a clean close the
\* loop ends, after another close ConnectionClosedError leaves it.
RecvClosed(ws) ==
  /\ pc[ws] = "recv"
  /\ UNCHANGED <<fetchVars, apiVars, cmdVars, parsVars>>
  /\ closed[ws] # "open"
  /\ HandlerEnds(ws, IF closed[ws] = "ok" THEN "none" ELSE "ConnectionClosedError",
                 IF closed[ws] = "ok" THEN "returned" ELSE "recv")
  /\ UNCHANGED <<closed, frame, got, fileLogger, logFile>>

\* AsyncLogger.set_file resumes: an existing file is taken; a missing one
\* is touched with the file name in the place of the mode, which the path
\* library may refuse.  Then AsyncLogger.log awaits its append.
SetFileDone(ws) ==
  /\ pc[ws] = "set_file"
  /\ UNCHANGED <<fetchVars, apiVars, cmdVars, parsVars>>
  /\ UNCHANGED <<closed, frame, got>>
  /\ \/ /\ logFile
        /\ fileLogger' = "file"
        /\ Goto(ws, "log_write")
        /\ UNCHANGED <<logFile, msg, audit>>
     \/ /\ ~logFile
        /\ logFile' = TRUE
        /\ fileLogger' = "file"
        /\ Goto(ws, "log_write")
        /\ UNCHANGED <<msg, audit>>
     \/ /\ ~logFile
        /\ HandlerEnds(ws, "TypeError", "set_file")
        /\ UNCHANGED <<logFile, fileLogger>>

\* AsyncLogger.log resumes from the append, or the append fails.
LogWriteDone(ws) ==
  /\ pc[ws] = "log_write"
  /\ UNCHANGED <<fetchVars, apiVars, cmdVars, parsVars>>
  /\ UNCHANGED <<closed, frame, got, fileLogger, logFile>>
  /\ \/ /\ audit' = [audit EXCEPT ![ws] = Append(@, "file")]
        /\ AfterLog(ws, msg[ws])
     \/ HandlerEnds(ws, "OSError", "log_write")

\* exchange_rates comes back to message_handle: with gather's list parsed,
\* or with the AttributeError of pars_response.
FetchDone(ws) ==
  /\ pc[ws] = "fetch"
  /\ UNCHANGED <<fetchVars, apiVars, cmdVars, parsVars>>
  /\ UNCHANGED <<closed, frame, got, fileLogger, logFile>>
  /\ \E cs \in GatherLists(ClampDays(msg[ws].days)) :
       IF ParseAll(cs).raise
         THEN HandlerEnds(ws, "AttributeError", "fetch")
         ELSE send_to_clients(ws) /\ UNCHANGED audit

\* A send() of a broadcast resumes: it raises when its connection is
\* closed; otherwise the frame is out and the comprehension asks the
\* iterator for the next client.
SendStep(ws) ==
  /\ pc[ws] = "send"
  /\ UNCHANGED <<fetchVars, apiVars, cmdVars, parsVars>>
  /\ UNCHANGED <<closed, frame, fileLogger, logFile>>
  /\ LET r == cur[ws]
         n == SetIterNext(itUsed[ws], itPos[ws])
     IN IF closed[r] # "open"
          THEN /\ HandlerEnds(ws, IF closed[r] = "ok" THEN "ConnectionClosedOK"
                                  ELSE "ConnectionClosedError", "send")
               /\ UNCHANGED got
          ELSE /\ got' = [got EXCEPT ![r][ws] = Append(@, frame[ws])]
               /\ IF n.st = "raise" THEN HandlerEnds(ws, "RuntimeError", "send")
                  ELSE IF n.st = "stop"
                    THEN /\ pc' = [pc EXCEPT ![ws] = "recv"]
                         /\ itUsed' = [itUsed EXCEPT ![ws] = 0]
                         /\ itPos' = [itPos EXCEPT ![ws] = 0]
                         /\ cur' = [cur EXCEPT ![ws] = 0]
                         /\ audit' = [audit EXCEPT ![ws] = <<>>]
                         /\ UNCHANGED <<clients, exc, excAt, snap, stayed,
                                        newcomers, msg>>
                  ELSE /\ itPos' = [itPos EXCEPT ![ws] = n.pos]
                       /\ cur' = [cur EXCEPT ![ws] = n.item]
                       /\ UNCHANGED <<clients, pc, exc, excAt, itUsed, snap,
                                      stayed, newcomers, msg, audit>>

FetchIdle ==
  /\ fpc = "idle"
  /\ fdays = 0
  /\ requests = <<>>
  /\ arrived = <<>>
  /\ cources = <<>>
  /\ fresult = <<>>
  /\ fexc = "none"

ApiIdle ==
  /\ apiLast = [op |-> "none", ws |-> 0, raised |-> "none"]
  /\ apiCalls = 0

\* message_handle is not running.
NoParse == [days |-> <<>>, currency |-> <<>>, message |-> ""]
CmdIdle ==
  /\ cpc = "idle"
  /\ ctext = <<>>
  /\ cprovider = {}
  /\ clogger = "None"
  /\ caudit = <<>>
  /\ cparse = NoParse
  /\ creqs = <<>>
  /\ cresult = <<>>
  /\ creply = <<>>
  /\ cexc = "none"

\* pars_response is not running.
ParsIdle ==
  /\ ppc = "idle"
  /\ presponse = [date |-> 0, exchangeRate |-> <<>>]
  /\ pcurrency = <<>>
  /\ pout = {}

Init ==
  /\ clients = {}
  /\ pc = [c \in Conns |-> "idle"]
  /\ closed = [c \in Conns |-> "open"]
  /\ frame = [c \in Conns |-> 0]
  /\ msg = [c \in Conns |-> NoMsg]
  /\ itUsed = [c \in Conns |-> 0]
  /\ itPos = [c \in Conns |-> 0]
  /\ cur = [c \in Conns |-> 0]
  /\ got = [r \in Conns |-> [s \in Conns |-> <<>>]]
  /\ exc = [c \in Conns |-> "none"]
  /\ excAt = [c \in Conns |-> "none"]
  /\ snap = [c \in Conns |-> {}]
  /\ stayed = [c \in Conns |-> {}]
  /\ newcomers = [c \in Conns |-> {}]
  /\ fileLogger = "None"
  /\ logFile \in BOOLEAN
  /\ audit = [c \in Conns |-> <<>>]
  /\ FetchIdle
  /\ ApiIdle
  /\ CmdIdle
  /\ ParsIdle

Next ==
  \/ \E ws \in Conns : Connect(ws)
  \/ \E ws \in Conns : PeerClose(ws)
  \/ \E ws \in Conns : RecvFrame(ws)
  \/ \E ws \in Conns : RecvClosed(ws)
  \/ \E ws \in Conns : SetFileDone(ws)
  \/ \E ws \in Conns : LogWriteDone(ws)
  \/ \E ws \in Conns : FetchDone(ws)
  \/ \E ws \in Conns : SendStep(ws)

Spec == Init /\ [][Next]_vars

(***************************************************************************)
(* exchange_rates on its own                                               *)
(***************************************************************************)

\* exchange_rates up to its first await (lines 134-146): the day count is
\* cut, one get_request per offset is put on the list, most recent day
\* first, and the whole list is handed to gather.
FetchCall ==
  /\ fpc = "call"
  /\ UNCHANGED <<serverVars, apiVars, cmdVars, parsVars>>
  /\ LET days == ClampDays(fdays)
     IN /\ fdays' = days
        /\ requests' = [i \in 1..days |-> i - 1]
        /\ cources' = [i \in 1..days |-> Pending(i - 1)]
  /\ fpc' = "gather"
  /\ UNCHANGED <<arrived, fresult, fexc>>

\* One request of the batch completes, in any order: with a body, an
\* error status, or a connection error that connection_errors turns into
\* its text.
Complete(i) ==
  /\ fpc = "gather"
  /\ UNCHANGED <<serverVars, apiVars, cmdVars, parsVars>>
  /\ i \in 1..Len(cources)
  /\ cources[i].kind = "pending"
  /\ \E resp \in get_request(requests[i]) :
       cources' = GatherPut(cources, i, resp)
  /\ arrived' = Append(arrived, i)
  /\ UNCHANGED <<fpc, fdays, requests, fresult, fexc>>

\* gather returns once every request is in, and the loop of lines 148-149
\* parses the list: exchange_rates returns the result or raises.
FetchParse ==
  /\ fpc = "gather"
  /\ UNCHANGED <<serverVars, apiVars, cmdVars, parsVars>>
  /\ \A i \in 1..Len(cources) : cources[i].kind # "pending"
  /\ LET p == ParseAll(cources)
     IN IF p.raise
          THEN fexc' = "AttributeError" /\ UNCHANGED fresult
          ELSE fresult' = p.result /\ UNCHANGED fexc
  /\ fpc' = "done"
  /\ UNCHANGED <<fdays, requests, arrived, cources>>

ServerIdle ==
  /\ clients = {}
  /\ pc = [c \in Conns |-> "idle"]
  /\ closed = [c \in Conns |-> "open"]
  /\ frame = [c \in Conns |-> 0]
  /\ msg = [c \in Conns |-> NoMsg]
  /\ itUsed = [c \in Conns |-> 0]
  /\ itPos = [c \in Conns |-> 0]
  /\ cur = [c \in Conns |-> 0]
  /\ got = [r \in Conns |-> [s \in Conns |-> <<>>]]
  /\ exc = [c \in Conns |-> "none"]
  /\ excAt = [c \in Conns |-> "none"]
  /\ snap = [c \in Conns |-> {}]
  /\ stayed = [c \in Conns |-> {}]
  /\ newcomers = [c \in Conns |-> {}]
  /\ fileLogger = "None"
  /\ logFile = FALSE
  /\ audit = [c \in Conns |-> <<>>]

InitFetch ==
  /\ ServerIdle
  /\ ApiIdle
  /\ CmdIdle
  /\ ParsIdle
  /\ fpc = "call"
  /\ fdays \in 0..MaxDays
  /\ requests = <<>>
  /\ arrived = <<>>
  /\ cources = <<>>
  /\ fresult = <<>>
  /\ fexc = "none"

NextFetch ==
  \/ FetchCall
  \/ \E i \in 1..MaxDays : Complete(i)
  \/ FetchParse

SpecFetch == InitFetch /\ [][NextFetch]_vars

(***************************************************************************)
(* register and unregister called directly                                 *)
(***************************************************************************)

\* One more direct call; the tasks of the server and exchange_rates are
\* not running.
ApiCall ==
  /\ apiCalls < MaxCalls
  /\ apiCalls' = apiCalls + 1
  /\ UNCHANGED <<pc, closed, frame, msg, itUsed, itPos, cur, got, exc, excAt,
                 snap, stayed, newcomers, fileLogger, logFile, audit, fetchVars,
                 cmdVars, parsVars>>

\* await server.register(ws)
ApiRegister(ws) ==
  /\ ApiCall
  /\ register(ws)
  /\ apiLast' = [op |-> "register", ws |-> ws, raised |-> "none"]

\* await server.unregister(ws)
ApiUnregister(ws) ==
  /\ ApiCall
  /\ IF UnregisterRaises(ws)
       THEN /\ apiLast' = [op |-> "unregister", ws |-> ws, raised |-> "KeyError"]
            /\ UNCHANGED clients
       ELSE /\ apiLast' = [op |-> "unregister", ws |-> ws, raised |-> "none"]
            /\ clients' = clients \ {ws}

InitApi == ServerIdle /\ FetchIdle /\ ApiIdle /\ CmdIdle /\ ParsIdle

NextApi ==
  \/ \E ws \in Conns : ApiRegister(ws)
  \/ \E ws \in Conns : ApiUnregister(ws)

SpecApi == InitApi /\ [][NextApi]_vars

(***************************************************************************)
(* message_handle on one frame                                             *)
(***************************************************************************)

\* A str is a sequence of pieces: the word "exchange", a blank, a comma, a
\* decimal digit, or a run of other characters that no operation of the
\* code takes apart ("s", "hi", "a", "-", a currency code in either case).
Digits == {"0", "1", "2"}
DigitValue(c) == IF c = "0" THEN 0 ELSE IF c = "1" THEN 1 ELSE 2

\* message.startswith("exchange")
StartsWithExchange(message) == message # <<>> /\ Head(message) = "exchange"

\* str.split(sep): the runs between the separators, empty runs included.
RECURSIVE Split(_, _)
Split(str, sep) ==
  IF str = <<>> THEN << <<>> >>
  ELSE LET rest == Split(Tail(str), sep)
       IN IF Head(str) = sep THEN << <<>> >> \o rest
          ELSE << <<Head(str)>> \o Head(rest) >> \o Tail(rest)

\* str.isdecimal(): not empty, decimal digits only.
IsDecimal(str) == str # <<>> /\ \A i \in 1..Len(str) : str[i] \in Digits

\* int(str) of a decimal str.
RECURSIVE int(_)
int(str) ==
  IF str = <<>> THEN 0
  ELSE int(SubSeq(str, 1, Len(str) - 1)) * 10 + DigitValue(str[Len(str)])

\* str.upper()
UpperPiece(c) == IF c = "pln" THEN "PLN" ELSE c
Upper(str) == [i \in 1..Len(str) |-> UpperPiece(str[i])]

\* API_CURRENCIES and base_currency of exchange.py.
API_CURRENCIES ==
  {"AUD", "AZN", "BYN", "CAD", "CHF", "CNY", "CZK", "DKK", "EUR", "GBP",
   "GEL", "HUF", "ILS", "JPY", "KZT", "MDL", "NOK", "PLN", "SEK", "SGD",
   "TMT", "TRY", "UAH", "USD", "UZS", "XAU"}
base_currency == << <<"EUR">>, <<"USD">> >>

\* The texts arg_parsing answers with.  The second one goes on with the
\* codes of API_CURRENCIES joined in the order the frozenset yields them.
InvalidDays == "Invalid days count! It must be numeric value between 1 and 10"
InvalidCurrency == "Invalid currency! Use one of available currencies:"

\* A str that is one of the codes of the allow-list.
IsApiCurrency(str) == Len(str) = 1 /\ str[1] \in API_CURRENCIES

\* An allow-list test that is content with one known code.
IsSupersetAny(currencies) ==
  \E i \in 1..Len(currencies) : IsApiCurrency(currencies[i])

\* API_CURRENCIES.issuperset(currencies)
IsSuperset(currencies) ==
  \A i \in 1..Len(currencies) : IsApiCurrency(currencies[i])

\* arg_parsing(args): (kwargs, message).  A key of kwargs that is not set
\* is the empty sequence, a key that is set the one-element sequence of its
\* value.
arg_parsing(args) ==
  IF Len(args) > 1 /\ ~IsDecimal(args[2])
    THEN [days |-> <<>>, currency |-> <<>>, message |-> InvalidDays]
  ELSE LET days == IF Len(args) > 1 THEN <<int(args[2])>> ELSE <<>>
       IN IF Len(args) > 2
            THEN LET currencies == Split(Upper(args[3]), ",")
                 IN IF IsSuperset(currencies)
                      THEN [days |-> days, currency |-> <<currencies>>,
                            message |-> ""]
                      ELSE [days |-> days, currency |-> <<>>,
                            message |-> InvalidCurrency]
            ELSE [days |-> days, currency |-> <<>>, message |-> ""]

\* What the provider answers to the request of offset d: an error status
\* for the offsets of provider, a body with rates for the others.
Answer(provider, d) ==
  IF d \in provider
    THEN [kind |-> "status", req |-> d, date |-> d, rates |-> FALSE]
    ELSE [kind |-> "json", req |-> d, date |-> d, rates |-> TRUE]

\* currency.extend(base_currency)
Extend(currency) == currency \o base_currency

\* An exchange_rates that requests as many days as it is asked for.
RequestsUncut(days) == [i \in 1..days |-> i - 1]

\* The requests exchange_rates puts on its list (lines 135-144): one per
\* day of range(days) after the cut, offset 0 first.
Requests(days) == [i \in 1..ClampDays(days) |-> i - 1]

\* exchange_rates(days, currency) against a provider, gather's list being
\* in the order of the requests.
exchange_rates(days, currency, provider) ==
  LET reqs == Requests(days)
      p == ParseAll([i \in 1..Len(reqs) |-> Answer(provider, reqs[i])])
  IN [requests |-> reqs, currency |-> Extend(currency),
      raise |-> p.raise, result |-> p.result]

\* response_to_html: the str of every element of the list, braces and
\* commas replaced by tags; the str of {} is "{}".
response_to_html(response) ==
  [i \in 1..Len(response) |->
     IF response[i].empty THEN "<ul><li></li></ul>"
     ELSE "<ul><li>date: <ul><li>rates</li></ul></li></ul>"]

\* ws.name, the name register gave the connection.
user_name == "name"

\* A message_handle that adds the text of arg_parsing to the frame as it is.
ErrorReplyBare(message, error_message) == message \o <<error_message>>

\* The reply to a command arg_parsing rejects (lines 51, 55, 58).
ErrorReply(message, error_message) ==
  message \o <<" result:">> \o <<error_message>>

\* What can come of "log = await self.logger(); await log.log(...)": a line
\* in the file, a line on stdout (the logger exists and its file is still
\* None), the TypeError of touch(file) in set_file, the OSError of an
\* append that fails.
LogOutcomes(logger) ==
  IF logger = "None" THEN {"file", "TypeError", "OSError"}
  ELSE IF logger = "nofile" THEN {"stdout"}
  ELSE {"file", "OSError"}

\* message_handle of a frame that does not start with "exchange": the
\* frame is returned as it is.
CmdChat ==
  /\ cpc = "start"
  /\ ~StartsWithExchange(ctext)
  /\ creply' = ctext
  /\ cpc' = "done"
  /\ UNCHANGED <<ctext, cprovider, clogger, caudit, cparse, creqs, cresult,
                 cexc>>
  /\ UNCHANGED <<serverVars, fetchVars, apiVars, parsVars>>

\* message_handle of a frame that starts with "exchange", up to the end of
\* log.log (lines 52-54).
CmdAudit ==
  /\ cpc = "start"
  /\ StartsWithExchange(ctext)
  /\ \E o \in LogOutcomes(clogger) :
       IF o \in {"file", "stdout"}
         THEN /\ caudit' = Append(caudit, [user |-> user_name, text |-> ctext,
                                           to |-> o])
              /\ clogger' = IF o = "file" THEN "file" ELSE clogger
              /\ cpc' = "logged"
              /\ UNCHANGED cexc
         ELSE /\ cexc' = o
              /\ clogger' = IF o = "TypeError" THEN "nofile" ELSE "file"
              /\ cpc' = "done"
              /\ UNCHANGED caudit
  /\ UNCHANGED <<ctext, cprovider, cparse, creqs, cresult, creply>>
  /\ UNCHANGED <<serverVars, fetchVars, apiVars, parsVars>>

\* message_handle from arg_parsing to its return (lines 55-62).
CmdParse ==
  /\ cpc = "logged"
  /\ LET p == arg_parsing(Split(ctext, " "))
         days == IF p.days = <<>> THEN 1 ELSE p.days[1]
         currency == IF p.currency = <<>> THEN <<>> ELSE p.currency[1]
         r == exchange_rates(days, currency, cprovider)
     IN /\ cparse' = p
        /\ IF p.message # ""
             THEN /\ creply' = ErrorReply(ctext, p.message)
                  /\ UNCHANGED <<creqs, cresult, cexc>>
             ELSE /\ creqs' = r.requests
                  /\ IF r.raise
                       THEN /\ cexc' = "AttributeError"
                            /\ UNCHANGED <<cresult, creply>>
                       ELSE /\ cresult' = r.result
                            /\ creply' = ctext \o <<" result:">>
                                           \o response_to_html(r.result)
                            /\ UNCHANGED cexc
  /\ cpc' = "done"
  /\ UNCHANGED <<ctext, cprovider, clogger, caudit>>
  /\ UNCHANGED <<serverVars, fetchVars, apiVars, parsVars>>

\* The frames: a first word, then possibly a day token, then possibly a
\* currency token, one blank between them.
FirstWords ==
  {<<"exchange">>, <<"exchange", "s">>, <<"hi">>, <<"hi", " ", "exchange">>}
DayTokens ==
  {<<"0">>, <<"1">>, <<"2">>, <<"1", "0">>, <<"1", "1">>, <<"1", "2">>,
   <<"a">>, <<"-", "1">>, <<>>}
CurrencyTokens ==
  {<<"PLN">>, <<"pln">>, <<"XXX">>, <<"PLN", ",", "XXX">>,
   <<"pln", ",", "GBP">>, <<"PLN", ",">>}
Texts ==
  FirstWords
    \cup {f \o <<" ">> \o d : f \in FirstWords, d \in DayTokens}
    \cup {f \o <<" ">> \o d \o <<" ">> \o c :
            f \in FirstWords, d \in DayTokens, c \in CurrencyTokens}

\* The providers: every request answered with a body, or all but the one
\* of a recent day or of the day MAX_DAYS back.
Providers == {{}} \cup {{d} : d \in 0..MaxDays} \cup {{MAX_DAYS}}

InitCmd ==
  /\ ServerIdle
  /\ FetchIdle
  /\ ApiIdle
  /\ ParsIdle
  /\ cpc = "start"
  /\ ctext \in Texts
  /\ cprovider \in Providers
  /\ clogger \in {"None", "nofile", "file"}
  /\ caudit = <<>>
  /\ cparse = NoParse
  /\ creqs = <<>>
  /\ cresult = <<>>
  /\ creply = <<>>
  /\ cexc = "none"

NextCmd ==
  \/ CmdChat
  \/ CmdAudit
  \/ CmdParse

SpecCmd == InitCmd /\ [][NextCmd]_vars

(***************************************************************************)
(* pars_response on one body                                               *)
(***************************************************************************)

\* A 200 body is its "date" and its "exchangeRate": the empty sequence when
\* the key is absent, else the one-element sequence of the array.  An entry
\* of the array is its "currency" and which of its rate fields are there:
\* pb for saleRate and purchaseRate, nb for saleRateNB and purchaseRateNB.
\* A dict is modelled as the set of its items.
Rate(curr) ==
  IF curr.pb THEN "pb" ELSE IF curr.nb THEN "nb" ELSE "unavailable"

\* exchange_rate after the loop of lines 44-54: update() keeps, for every
\* code of currency, the last entry of rates that carries it.
RateDict(rates, currency) ==
  {[currency |-> rates[i].currency, sale |-> Rate(rates[i]),
    purchase |-> Rate(rates[i])] :
      i \in {j \in 1..Len(rates) :
               /\ \E k \in 1..Len(currency) : rates[j].currency = currency[k]
               /\ \A l \in (j + 1)..Len(rates) :
                    rates[l].currency # rates[j].currency}}

\* pars_response(response, currency) of a 200 body: {} when the body has no
\* "exchangeRate", else {date: exchange_rate}.
pars_response_dict(response, currency) ==
  IF response.exchangeRate = <<>> THEN {}
  ELSE {<<response.date, RateDict(response.exchangeRate[1], currency)>>}

\* pars_response of a body without "exchangeRate" (lines 40-43).
ParsNoRates ==
  /\ ppc = "call"
  /\ presponse.exchangeRate = <<>>
  /\ pout' = pars_response_dict(presponse, pcurrency)
  /\ ppc' = "done"
  /\ UNCHANGED <<presponse, pcurrency>>
  /\ UNCHANGED <<serverVars, fetchVars, apiVars, cmdVars>>

\* pars_response of a body with "exchangeRate" (lines 40-56).
ParsRates ==
  /\ ppc = "call"
  /\ presponse.exchangeRate # <<>>
  /\ pout' = pars_response_dict(presponse, pcurrency)
  /\ ppc' = "done"
  /\ UNCHANGED <<presponse, pcurrency>>
  /\ UNCHANGED <<serverVars, fetchVars, apiVars, cmdVars>>

\* The entries a body may carry, and the arrays of up to MaxRates of them.
Entries ==
  {[currency |-> c, pb |-> pb, nb |-> nb] :
     c \in {<<"EUR">>, <<"PLN">>, <<"GBP">>}, pb \in BOOLEAN, nb \in BOOLEAN}
Arrays == UNION {[1..n -> Entries] : n \in 0..MaxRates}

\* The lists exchange_rates passes on: what arg_parsing accepted, or the
\* default, extended by base_currency (line 134).
CurrencyLists ==
  {Extend(c) : c \in {<<>>, << <<"PLN">> >>, << <<"PLN">>, <<"GBP">> >>}}

InitPars ==
  /\ ServerIdle
  /\ FetchIdle
  /\ ApiIdle
  /\ CmdIdle
  /\ ppc = "call"
  /\ presponse \in
       {[date |-> d, exchangeRate |-> r] :
          d \in 0..1, r \in {<<>>} \cup {<<a>> : a \in Arrays}}
  /\ pcurrency \in CurrencyLists
  /\ pout = {}

NextPars ==
  \/ ParsNoRates
  \/ ParsRates

SpecPars == InitPars /\ [][NextPars]_vars

(***************************************************************************)
(* The claims                                                              *)
(***************************************************************************)

Range(q) == {q[i] : i \in 1..Len(q)}
Ordered(q) == \A i, j \in 1..Len(q) : i < j => q[i] < q[j]
Times(q, k) == Cardinality({i \in 1..Len(q) : q[i] = k})

\* The client whose send() raised in the broadcast of s (cur is kept at the
\* end of a handler only then), or 0.
SendFailedOn(s) == IF pc[s] = "done" THEN cur[s] ELSE 0

\* The broadcast of the latest frame of s has returned to distrubute.
BroadcastReturned(s) == pc[s] = "recv" /\ frame[s] > 0

\* C1: when the send to one registered connection raises during a
\* broadcast, send_to_clients does not raise and every other connection
\* registered when the broadcast began has been sent the message.
C1_SendFailureContained ==
  \A s \in Conns :
    SendFailedOn(s) # 0 =>
      /\ exc[s] \notin ConnectionClosed
      /\ \A r \in snap[s] \ {SendFailedOn(s)} : frame[s] \in Range(got[r][s])

\* C2: when one of the day requests of exchange_rates gets a non-200
\* status, exchange_rates still returns one entry per request.
C2_StatusKeepsBatch ==
  (fpc = "done" /\ \E i \in 1..Len(cources) : cources[i].kind = "status") =>
    fexc = "none" /\ Len(fresult) = fdays

\* C3: a connection registering or unregistering while a broadcast is
\* suspended in a send never makes the broadcast raise, and a broadcast
\* that returned has sent the message exactly once to every connection
\* that stayed registered throughout.
C3_MembershipChangeSafe ==
  \A s \in Conns :
    /\ exc[s] # "RuntimeError"
    /\ BroadcastReturned(s) =>
         \A r \in stayed[s] : Times(got[r][s], frame[s]) = 1

\* C4: when the send to R fails in a broadcast of another connection S, R
\* is out of the registry, S is still registered and the receive loop of S
\* goes on.
C4_FailedRecipientRemoved ==
  \A s \in Conns :
    (SendFailedOn(s) # 0 /\ SendFailedOn(s) # s) =>
      /\ SendFailedOn(s) \notin clients
      /\ s \in clients
      /\ pc[s] # "done"

\* C5: a connection whose receive loop ended is out of Server.clients, and
\* no broadcast of another connection is ended by a RuntimeError when all
\* that happened to the registry during it is that connections left
\* because their receive loops ended.
C5_LoopEndIsLocal ==
  /\ \A c \in Conns : pc[c] = "done" => c \notin clients
  /\ \A d \in Conns :
       exc[d] = "RuntimeError" =>
         \/ newcomers[d] # {}
         \/ \E c \in snap[d] \ stayed[d] : excAt[c] \notin {"returned", "recv"}

\* C6: unregister of a connection that is not registered does not raise.
C6_UnregisterIdempotent ==
  apiLast.op = "unregister" => apiLast.raised = "none"

\* C7: a broadcast in flight when a connection registers is not delivered
\* to that connection and does not end in an error.
C7_NewcomerNotServed ==
  \A s \in Conns :
    newcomers[s] # {} =>
      /\ exc[s] # "RuntimeError"
      /\ \A n \in newcomers[s] : frame[s] \notin Range(got[n][s])

\* C8: every recipient gets the frames of one sender in the order the
\* server received them, and when the receive loop of a sender takes its
\* next frame the broadcast of the previous one has returned, having sent
\* it to every connection registered throughout that broadcast.
C8_SenderOrder ==
  /\ [](\A r, s \in Conns : Ordered(got[r][s]))
  /\ [][\A s \in Conns :
          (frame'[s] = frame[s] + 1 /\ frame[s] >= 1) =>
            /\ pc[s] = "recv"
            /\ \A r \in stayed[s] : frame[s] \in Range(got[r][s])]_vars

\* Two frames of s have reached another connection r, in order, while d is
\* in a broadcast of its own; the one exchange command so far was the first
\* frame of s (the frames of this state are chat text).
C8_Witness ==
  \E s, d, r \in Conns :
    /\ s # d /\ r # s
    /\ got[r][s] = <<1, 2>>
    /\ pc[s] = "send" /\ audit[s] = <<>>
    /\ pc[d] = "send" /\ audit[d] = <<>> /\ frame[d] = 1
    /\ fileLogger # "None"

\* C9: every request of exchange_rates is on the list, offsets 0..days-1 in
\* order, before any of them completes, and the i-th entry of the result
\* comes from the response to the i-th request.
C9_GatherKeepsOrder ==
  /\ arrived # <<>> => fpc # "call"
  /\ fpc # "call" =>
       /\ Len(requests) = fdays
       /\ \A i \in 1..fdays : requests[i] = i - 1
  /\ (fpc = "done" /\ fexc = "none") =>
       /\ Len(fresult) = fdays
       /\ \A i \in 1..fdays : fresult[i].req = requests[i]

\* exchange_rates returned two days although the older day's response came
\* in first.
C9_Witness ==
  /\ fpc = "done"
  /\ fexc = "none"
  /\ arrived = <<2, 1>>
  /\ Len(fresult) = 2

\* C10: a day's fetch that failed does not come out of message_handle as an
\* exception: the sender stays registered and its receive loop goes on.
C10_FetchFailureContained ==
  \A c \in Conns : excAt[c] = "fetch" => (pc[c] # "done" /\ c \in clients)

\* The frame is a command whose third word, in upper case and cut at the
\* commas, has a code that is not on the allow-list.
HasCodeOutside(text) ==
  /\ StartsWithExchange(text)
  /\ LET args == Split(text, " ")
     IN /\ Len(args) > 2
        /\ \E code \in Range(Split(Upper(args[3]), ",")) :
             ~(Len(code) = 1 /\ code[1] \in API_CURRENCIES)

\* message_handle has called arg_parsing on the frame.
Parsed == cpc = "done" /\ cexc \notin {"TypeError", "OSError"}

\* C11: for a command whose currency token has a code outside
\* API_CURRENCIES, arg_parsing returns a message that is not empty and
\* message_handle issues no request.
C11_InvalidCurrencyNoRequest ==
  HasCodeOutside(ctext) =>
    /\ creqs = <<>>
    /\ Parsed => cparse.message # "" /\ cresult = <<>>

C11_Witness ==
  /\ ctext = <<"exchange", " ", "2", " ", "PLN", ",", "XXX">>
  /\ Parsed
  /\ cparse.message = InvalidCurrency
  /\ creply # <<>>

\* The frame is a command whose second word is the decimal of a number
\* above MAX_DAYS and whose third word, if any, arg_parsing accepts.
AsksMoreThanMax(text) ==
  /\ StartsWithExchange(text)
  /\ ~HasCodeOutside(text)
  /\ LET args == Split(text, " ")
     IN /\ Len(args) > 1
        /\ args[2] # <<>>
        /\ \A i \in 1..Len(args[2]) : args[2][i] \in {"0", "1", "2"}
        /\ int(args[2]) > 10

\* C12: a command for more than MAX_DAYS days is accepted by arg_parsing,
\* and exchange_rates issues the 10 requests and returns the result (or
\* raises as) the call for exactly MAX_DAYS days does against the same
\* provider.
C12_DaysCutToMax ==
  (AsksMoreThanMax(ctext) /\ Parsed) =>
    LET ten == exchange_rates(10, IF cparse.currency = <<>> THEN <<>>
                                  ELSE cparse.currency[1], cprovider)
    IN /\ cparse.message = ""
       /\ cparse.days # <<>> /\ cparse.days[1] > 10
       /\ creqs = <<0, 1, 2, 3, 4, 5, 6, 7, 8, 9>>
       /\ creqs = ten.requests
       /\ cresult = ten.result
       /\ (cexc = "AttributeError") <=> ten.raise

C12_Witness ==
  /\ ctext = <<"exchange", " ", "1", "2", " ", "pln", ",", "GBP">>
  /\ Parsed
  /\ cprovider = {10}
  /\ Len(creqs) = 10
  /\ Len(cresult) = 10
  /\ cexc = "none"

\* C13: a frame message_handle takes for a command has exactly one audit
\* record, of the sender's name and the frame as received, from before its
\* first request on and also when arg_parsing rejects it; any other frame
\* has none.
C13_OneAuditRecord ==
  /\ (StartsWithExchange(ctext) /\ cpc \in {"logged", "done"}) =>
       /\ Len(caudit) = 1
       /\ caudit[1].user = user_name
       /\ caudit[1].text = ctext
  /\ creqs # <<>> => Len(caudit) = 1
  /\ ~StartsWithExchange(ctext) => caudit = <<>>

\* C14: an exception of the logger's set-up or of the append of the audit
\* line does not end the handler of the connection that sent the command:
\* the command goes on to arg_parsing and the receive loop keeps running.
C14_AuditBestEffort ==
  \A c \in Conns :
    /\ excAt[c] \notin {"set_file", "log_write"}
    /\ pc[c] = "done" => exc[c] \notin {"TypeError", "OSError"}

\* The frame is a command whose second word is not a decimal literal.
DayWordNotDecimal(text) ==
  /\ StartsWithExchange(text)
  /\ LET args == Split(text, " ")
     IN /\ Len(args) > 1
        /\ \/ args[2] = <<>>
           \/ \E i \in 1..Len(args[2]) : args[2][i] \notin {"0", "1", "2"}

\* C15 as stated: for a command whose day word is not a decimal literal the
\* reply is the frame followed at once by the "Invalid days count!" text,
\* nothing else added, and no request is issued.
C15_ReplyIsTextThenError ==
  (DayWordNotDecimal(ctext) /\ Parsed) =>
    /\ creply = ctext \o
         <<"Invalid days count! It must be numeric value between 1 and 10">>
    /\ creqs = <<>>

\* C15, amended: for a command whose day word is not a decimal literal the
\* reply is the frame, then " result:", then the "Invalid days count!"
\* text, nothing else added, and no request is issued.
C15_ReplyIsTextResultError ==
  (DayWordNotDecimal(ctext) /\ Parsed) =>
    /\ creply = ctext \o <<" result:">> \o
         <<"Invalid days count! It must be numeric value between 1 and 10">>
    /\ creqs = <<>>
    /\ cresult = <<>>

C15_Witness ==
  /\ ctext = <<"exchange", " ", "a">>
  /\ Parsed
  /\ creply = <<"exchange", " ", "a", " result:",
                "Invalid days count! It must be numeric value between 1 and 10">>

\* C16: a frame whose first word (up to the first blank) is not exactly
\* "exchange" is chat: no audit record, no request, and what is broadcast
\* after the sender's name is the frame as received.
C16_OtherFirstWordIsChat ==
  Split(ctext, " ")[1] # <<"exchange">> =>
    /\ caudit = <<>>
    /\ creqs = <<>>
    /\ cexc = "none"
    /\ cpc = "done" => creply = ctext

\* C17: what pars_response returns for a 200 body has the body's own date
\* as its one key, and under it exactly the codes of the body's entries
\* that are requested or base currencies; for an empty array that is the
\* date with no code under it.
C17_DayRecordOfBody ==
  ppc = "done" =>
    /\ {item[1] : item \in pout} = {presponse.date}
    /\ \A item \in pout :
         {r.currency : r \in item[2]} =
           IF presponse.exchangeRate = <<>> THEN {}
           ELSE {e.currency : e \in Range(presponse.exchangeRate[1])}
                  \cap Range(pcurrency)
    /\ presponse.exchangeRate = << <<>> >> => pout = {<<presponse.date, {}>>}

\* C18: between any two steps of the tasks a connection is in
\* Server.clients exactly when its ws_handler has registered it and has
\* not finished: no connection whose handler returned or raised is left in
\* the set, none whose receive loop is running is missing from it.
C18_ClientsAreRunningHandlers ==
  \A c \in Conns : c \in clients <=> pc[c] \notin {"idle", "done"}

C18_Witness ==
  \E a, b \in Conns :
    /\ pc[a] = "done" /\ exc[a] = "RuntimeError" /\ a \notin clients
    /\ pc[b] = "send" /\ b \in clients
    /\ \E c \in Conns : pc[c] = "idle" /\ c \notin clients

\* C19: with Server.log_file set, every audit line goes to that file and
\* none to stdout, also the line of a command that arrives while the
\* logger's set_file, started by an earlier command, is still suspended.
C19_AuditNeverToStdout ==
  \A c \in Conns : "stdout" \notin Range(audit[c])

\* C20: for every command arg_parsing accepts, the day word "0" included,
\* exchange_rates issues at least 1 and at most 10 requests.
C20_OneToTenRequests ==
  (Parsed /\ StartsWithExchange(ctext) /\ cparse.message = "") =>
    Len(creqs) >= 1 /\ Len(creqs) <= 10

=============================================================================
